---- MODULE Spec2Model ----
(***************************************************************************)
(* The polling / aggregation / broadcast core of the OrbitalView backend   *)
(* (backend/main.py): the ConnectionManager registry, the per-connection   *)
(* listener tasks of /ws/live and the periodic broadcast_loop.             *)
(*                                                                         *)
(* The program is a single asyncio event loop: a task runs without         *)
(* interruption from one await to the next, so every action below is the   *)
(* code between two awaits of one task, and an action of another task is   *)
(* enabled only while the broadcast loop is suspended in an await.         *)
(*                                                                         *)
(* main.py imports TLERecord and fetch_tles, which the models/schemas.py   *)
(* and ingestion/celestrak.py of the source tree do not define: main.py    *)
(* was written against the variant of those two files that ships raw       *)
(* two-line element sets (payload field `tles`).  That variant is modelled *)
(* from the specification (fetch_tles, WorldPayload).                      *)
(***************************************************************************)
EXTENDS Integers, Sequences, FiniteSets, TLC

\* Number of WebSocket objects that ever reach /ws/live in a behaviour.
MaxConns == 2

Conns == 1..MaxConns

\* WebSocket objects whose send may stay pending forever (a peer that stops
\* reading): no fairness is assumed for the completion of a send to them.
SlowConns == {1}

Sources == {"aircraft", "tles", "earthquakes"}

---------------------------------------------------------------------------
(* Records                                                                 *)

\* icao24 addresses are sequences of characters.
MilIcao == <<"A", "E", "0", "1">>
CivIcao == <<"4", "0", "6", "a">>

AircraftPosition(icao, pos) == [icao24 |-> icao, hasPos |-> pos]

Mil == AircraftPosition(MilIcao, TRUE)
Civ == AircraftPosition(CivIcao, TRUE)

\* What the three gathered fetchers can return when they return a list.
AircraftLists == { <<>>, <<Civ>>, <<Mil, Civ, Mil>> }
TleLists == { <<>>, <<[norad_id |-> "25544", name |-> "ISS"]>> }
QuakeLists == { <<>>, <<[id |-> "us7000", magnitude |-> 5]>> }
\* What the ADS-B Exchange endpoint can yield (records with a position).
AdsbLists == { <<>>, <<Mil>> }

Lists(src) ==
    CASE src = "aircraft" -> AircraftLists
      [] src = "tles" -> TleLists
      [] src = "earthquakes" -> QuakeLists

\* An awaitable of the gather that ended by cancellation.
CancelledFetch == [status |-> "cancelled", value |-> <<>>]

Idle == [status |-> "idle", value |-> <<>>]
Pending == [status |-> "pending", value |-> <<>>]
Returned(v) == [status |-> "ok", value |-> v]
Raised == [status |-> "exc", value |-> <<>>]

\* Outcome of one awaitable of asyncio.gather(..., return_exceptions=True):
\* the list it returned, or the exception object it raised.
Outcomes(src) == { Returned(v) : v \in Lists(src) } \cup { Raised }

(* The environment of one behaviour: the WebSockets that request /ws/live,  *)
(* what each upstream feed can answer, and whether an ADS-B Exchange key is *)
(* configured.  The payload is opaque to the registry and no fetcher reads  *)
(* the registry, so the two are varied separately: every client with one    *)
(* answer per feed (3, 0 and 1 records, no key, the default of config.py),  *)
(* or every answer of every feed, with and without a key, with one client. *)
OneFeed ==
    [s \in Sources |->
        CASE s = "aircraft" -> { Returned(<<Mil, Civ, Mil>>) }
          [] s = "tles" -> { Returned(<<>>) }
          [] s = "earthquakes" -> { Returned(<<[id |-> "us7000", magnitude |-> 5]>>) }]

AllFeeds == [s \in Sources |-> Outcomes(s)]

Environments ==
    { [clients |-> Conns, feeds |-> OneFeed, key |-> FALSE] }
    \cup { [clients |-> {1}, feeds |-> AllFeeds, key |-> k] : k \in BOOLEAN }


---------------------------------------------------------------------------
(* Pure functions                                                          *)

\* str.lower() on the characters that occur in the sample addresses.
Lower(ch) ==
    CASE ch = "A" -> "a"
      [] ch = "E" -> "e"
      [] OTHER -> ch

LowerSeq(s) == [i \in 1..Len(s) |-> Lower(s[i])]

StartsWith(s, p) == Len(p) <= Len(s) /\ SubSeq(s, 1, Len(p)) = p

MILITARY_ICAO_PREFIXES ==
    { <<"a", "e">>, <<"4", "3">>, <<"3", "a">>, <<"4", "3", "c">>,
      <<"7", "c", "1">>, <<"7", "1", "0">>, <<"1", "5", "4">> }

is_military_icao(icao24) ==
    \E p \in MILITARY_ICAO_PREFIXES : StartsWith(LowerSeq(icao24), p)

\* [a for a in all_aircraft if _is_military_icao(a.icao24)]
\* The parameter all_aircraft: list[AircraftPosition] | None.
None == [given |-> FALSE, list |-> <<>>]
Some(l) == [given |-> TRUE, list |-> l]

FilterMilitary(all_aircraft) ==
    SelectSeq(all_aircraft, LAMBDA a : is_military_icao(a.icao24))

\* results[i] if not isinstance(results[i], BaseException) else []
Normalise(r) == IF r.status = "exc" THEN <<>> ELSE r.value

AircraftFeature(ac) ==
    [type |-> "Feature", geometry |-> "Point", icao24 |-> ac.icao24]

\* One feature per record that has both coordinates, in input order.
build_aircraft_geojson(aircraft_list) ==
    LET withPos == SelectSeq(aircraft_list, LAMBDA ac : ac.hasPos)
    IN  [type |-> "FeatureCollection",
         features |-> [i \in 1..Len(withPos) |-> AircraftFeature(withPos[i])]]

QuakeFeature(eq) ==
    [type |-> "Feature", geometry |-> "Point", id |-> eq.id,
     magnitude |-> eq.magnitude]

build_earthquake_geojson(quakes) ==
    [type |-> "FeatureCollection",
     features |-> [i \in 1..Len(quakes) |-> QuakeFeature(quakes[i])]]

\* The snapshot payload of one cycle, as main.py assembles it.
WorldPayload(ac, mil, tl, qk) ==
    [aircraft |-> build_aircraft_geojson(ac),
     military |-> build_aircraft_geojson(mil),
     tles |-> tl,
     earthquakes |-> build_earthquake_geojson(qk),
     counts |-> [aircraft |-> Len(ac), military |-> Len(mil),
                 satellites |-> Len(tl), earthquakes |-> Len(qk)]]

\* payload.model_dump_json(): the serialized text handed to broadcast.
model_dump_json(p) == [json |-> p]

\* settings.POLLING_INTERVAL_SECONDS (its default).
POLLING_INTERVAL_SECONDS == 10

\* time.monotonic() - cycle_start when the try statement has been left: the
\* clock is monotonic, so a duration that is not negative: shorter than,
\* equal to or longer than the interval.
ElapsedTimes ==
    {4, POLLING_INTERVAL_SECONDS, POLLING_INTERVAL_SECONDS + 5}

Max(a, b) == IF a >= b THEN a ELSE b

\* Mutant of SleepDuration: the difference is not clamped at zero.
SleepDurationUnclamped(e) == POLLING_INTERVAL_SECONDS - e

\* max(0.0, settings.POLLING_INTERVAL_SECONDS - elapsed)
SleepDuration(e) == Max(0, POLLING_INTERVAL_SECONDS - e)

---------------------------------------------------------------------------
(* State                                                                   *)

VARIABLES
    clients,      \* environment: the WebSockets that request /ws/live
    feeds,        \* environment: the outcomes each upstream feed can have
    adsbKey,      \* settings.ADSB_API_KEY is set (fixed for the process)
    connections,  \* ConnectionManager._connections
    wsState,      \* per WebSocket: the position of its websocket_endpoint task
    handshook,    \* the WebSockets whose accept() has completed
    pc,           \* position of the broadcast_loop task
    results,      \* per gathered awaitable: idle / pending / its outcome
    aircraft,     \* broadcast_loop locals after the gather
    tles,
    quakes,
    military,
    message,      \* <<text>> once the payload is serialized, <<>> before
    dead,         \* broadcast(): local set of the connections whose send raised
    iterUsed,     \* the set iterator's si_used: len(set) when the for began
    pending,      \* the members the set iterator would still yield
    moved,        \* an add since the iterator's last step moved the members
    cur,          \* the connection of the send in flight, 0 when none
    err,          \* the exception that left the cycle's try body, "" when none
    elapsed,      \* broadcast_loop local: time since cycle_start at the sleep
    sleepFor,     \* the delay handed to asyncio.sleep()
    cancelledAt,  \* the await at which task.cancel() ended the loop, "" if none
    milArg,       \* history: the argument of the cycle's fetch_military_aircraft call
    milBranch,    \* history: the branch that call took
    primaryFetches, \* history: calls of fetch_aircraft in the current cycle
    eqCache,      \* usgs._cache
    eqCacheTime,  \* usgs._cache_time
    eqNow,        \* the monotonic clock read by fetch_earthquakes, in seconds
    eqPc,         \* position of the fetch_earthquakes call
    eqStart,      \* fetch_earthquakes local `now`
    eqResp,       \* the upstream answer of the request in progress
    eqRet,        \* what the last fetch_earthquakes call returned
    eqHow,        \* history: how the last call ended
    eqFetched,    \* history: some call has stored an upstream answer
    tleText,      \* _parse_tle_text argument: the lines of text.splitlines()
    tleLines,     \* _parse_tle_text local `lines`
    tleI,         \* _parse_tle_text local `i`
    tleEntries,   \* _parse_tle_text local `entries`
    tleStarts,    \* history: the values of i at which an entry was appended
    tleParsePc,   \* position of the _parse_tle_text call
    satCache,     \* celestrak._tle_cache
    satCacheTime, \* celestrak._cache_time
    satNow,       \* time.monotonic() as celestrak reads it
    satPc,        \* position of the fetch_satellites call
    satStart,     \* fetch_satellites local `now`
    satResp,      \* history: the answer to the last upstream request
    satRet,       \* the value the last fetch_satellites call returned
    satHow,       \* history: how the last call ended
    satAttempts,  \* history: upstream requests issued by the last call
    satSlept,     \* history: the delays the last call slept between requests
    skyScheme,    \* which credentials settings hold (fixed for the process)
    skyToken,     \* opensky._token: 0 for "", else the number of the token
    skyTokenExp,  \* opensky._token_expires_at
    skyNow,       \* time.monotonic() as opensky reads it
    skyPc,        \* position of the fetch_aircraft call
    skyResp,      \* history: the last answer of the upstream to this call
    skyRet,       \* the value the last fetch_aircraft call returned
    skyRaised,    \* the exception that left the last fetch_aircraft call
    skySent,      \* history: the token sent with the last data request
    skyTokenReqs, \* history: token requests issued by the last call
    skyExpiry,    \* history: when the upstream lets the held token expire
    bldList,      \* _build_aircraft_geojson argument aircraft_list
    bldArg,       \* history: aircraft_list as it was when the call began
    bldI,         \* number of records the for loop has taken
    bldFeatures,  \* _build_aircraft_geojson local `features`
    bldPc,        \* position of the _build_aircraft_geojson call
    cycleSubs,    \* history: the registry at the top of the current cycle
    invoked,      \* history: the fetchers invoked in the current cycle
    passStart,    \* history: the registry when the broadcast pass began
    attempts,     \* history: send_text calls per connection in this pass
    got,          \* history: completed send_text calls per connection
    regTrail,     \* history: the registry operations since the last register
    preReg        \* history: the registry just before that register

regVars == <<connections, wsState, handshook, regTrail, preReg>>
fetchVars == <<results, aircraft, tles, quakes, military, invoked>>
passVars == <<message, dead, iterUsed, pending, moved, cur, passStart, attempts,
             got>>
timeVars == <<elapsed, sleepFor>>
milVars == <<milArg, milBranch, primaryFetches>>
usgsVars == <<eqCache, eqCacheTime, eqNow, eqPc, eqStart, eqResp, eqRet, eqHow,
             eqFetched>>
\* What no step of the running loop and of the listeners changes: the mark of
\* the shutdown, and the state of the ingestion modules, whose fetchers are
\* exercised on their own below (the loop sees of a fetcher only the list it
\* returns or the exception it raises).
parseVars == <<tleText, tleLines, tleI, tleEntries, tleStarts, tleParsePc>>
satVars == <<satCache, satCacheTime, satNow, satPc, satStart, satResp, satRet,
             satHow, satAttempts, satSlept>>
skyVars == <<skyScheme, skyToken, skyTokenExp, skyNow, skyPc, skyResp, skyRet,
             skyRaised, skySent, skyTokenReqs, skyExpiry>>
bldVars == <<bldList, bldArg, bldI, bldFeatures, bldPc>>
libVars == <<usgsVars, parseVars, satVars, skyVars, bldVars>>

\* What the actions of one ingestion module leave alone: the other modules.
notUsgs == <<parseVars, satVars, skyVars, bldVars>>
notParse == <<usgsVars, satVars, skyVars, bldVars>>
notSat == <<usgsVars, parseVars, skyVars, bldVars>>
notSky == <<usgsVars, parseVars, satVars, bldVars>>
notBld == <<usgsVars, parseVars, satVars, skyVars>>
offVars == <<cancelledAt, libVars>>
vars == <<clients, feeds, adsbKey, connections, wsState, handshook, pc, results, aircraft,
          tles, quakes, military, message, dead, iterUsed, pending, moved, cur,
          err, elapsed, sleepFor, cancelledAt,
          milArg, milBranch, primaryFetches,
          eqCache, eqCacheTime, eqNow, eqPc, eqStart, eqResp, eqRet, eqHow,
          eqFetched,
          tleText, tleLines, tleI, tleEntries, tleStarts, tleParsePc,
          satCache, satCacheTime, satNow, satPc, satStart, satResp, satRet,
          satHow, satAttempts, satSlept,
          skyScheme, skyToken, skyTokenExp, skyNow, skyPc, skyResp, skyRet,
          skyRaised, skySent, skyTokenReqs, skyExpiry,
          bldList, bldArg, bldI, bldFeatures, bldPc,
          cycleSubs, invoked, passStart, attempts, got, regTrail, preReg>>

NoMessage == <<>>

\* except Exception: the classes the cycle's handler catches.
ExceptionClasses == {"RuntimeError", "ValidationError", "WebSocketDisconnect"}

\* ConnectionManager.connection_count
connection_count == Cardinality(connections)

\* The broadcast loop is suspended in an await that yields to the event loop:
\* the gather, the HTTP call of the ADS-B Exchange fetch, a send, the sleep.
Suspended ==
    \/ pc \in {"Fetching", "Sending", "Sleeping"}
    \/ pc = "Military" /\ adsbKey

envVars == <<clients, feeds, adsbKey>>

\* The loop, the registry and the listeners before the first cycle, in
\* environment e.
LoopInit(e) ==
    /\ clients = e.clients
    /\ feeds = e.feeds
    /\ adsbKey = e.key
    /\ connections = {}
    /\ wsState = [c \in Conns |-> "new"]
    /\ handshook = {}
    /\ pc = "Idle"
    /\ results = [s \in Sources |-> Idle]
    /\ aircraft = <<>>
    /\ tles = <<>>
    /\ quakes = <<>>
    /\ military = <<>>
    /\ message = NoMessage
    /\ dead = {}
    /\ iterUsed = 0
    /\ pending = {}
    /\ moved = FALSE
    /\ cur = 0
    /\ err = ""
    /\ elapsed = 0
    /\ sleepFor = 0
    /\ cancelledAt = ""
    /\ milArg = None
    /\ milBranch = ""
    /\ primaryFetches = 0
    /\ cycleSubs = {}
    /\ invoked = {}
    /\ passStart = {}
    /\ attempts = [c \in Conns |-> 0]
    /\ got = [c \in Conns |-> 0]
    /\ regTrail = <<>>
    /\ preReg = {}

\* No answer of the upstream is at hand.
NoResponse == [kind |-> "none", features |-> <<>>]

\* usgs.py as imported: _cache = [], _cache_time = 0.0.
UsgsInit ==
    /\ eqCache = <<>>
    /\ eqCacheTime = 0
    /\ eqNow = 0
    /\ eqPc = "idle"
    /\ eqStart = 0
    /\ eqResp = NoResponse
    /\ eqRet = <<>>
    /\ eqHow = ""
    /\ eqFetched = FALSE

\* No call of _parse_tle_text in progress.
ParseOff ==
    /\ tleText = <<>>
    /\ tleLines = <<>>
    /\ tleI = 0
    /\ tleEntries = <<>>
    /\ tleStarts = <<>>
    /\ tleParsePc = "off"

\* celestrak's module state after import: an empty cache, stamped 0.0.
SatInit ==
    /\ satCache = <<>>
    /\ satCacheTime = 0
    /\ satNow = 0
    /\ satPc = "idle"
    /\ satStart = 0
    /\ satResp = [kind |-> "none", text |-> <<>>]
    /\ satRet = <<>>
    /\ satHow = ""
    /\ satAttempts = 0
    /\ satSlept = <<>>

NoSkyResponse == [stage |-> "none", kind |-> "none", states |-> <<>>, expires |-> 0]

\* opensky's module state after import: no token; scheme is what the
\* settings select.
SkyInit(scheme) ==
    /\ skyScheme = scheme
    /\ skyToken = 0
    /\ skyTokenExp = 0
    /\ skyNow = 0
    /\ skyPc = "idle"
    /\ skyResp = NoSkyResponse
    /\ skyRet = <<>>
    /\ skyRaised = ""
    /\ skySent = 0
    /\ skyTokenReqs = 0
    /\ skyExpiry = 0

\* opensky is not called.
SkyOff == SkyInit("anonymous")

\* No call of _build_aircraft_geojson in progress.
BuildOff ==
    /\ bldList = <<>>
    /\ bldArg = <<>>
    /\ bldI = 0
    /\ bldFeatures = <<>>
    /\ bldPc = "off"

Init ==
    /\ \E e \in Environments : LoopInit(e)
    /\ UsgsInit
    /\ ParseOff
    /\ SatInit
    /\ SkyOff
    /\ BuildOff

---------------------------------------------------------------------------
(* The set iterator of `for ws in self._connections`                       *)
(* broadcast() iterates the live set.  CPython's set iterator raises       *)
(* RuntimeError on the next step when len(set) differs from the length it  *)
(* saw when the loop began; when the length is the same again it goes on   *)
(* scanning the hash table from its position.                              *)

(* An add made while the loop is suspended in a send puts the new member    *)
(* before or after the iterator's position, and an add that resizes the    *)
(* table moves every member: what the iterator still yields is then any    *)
(* subset of the set (`moved` records that such an add happened since the  *)
(* iterator's last step).  A discard only takes its member away.           *)

\* The sets of members the iterator may still yield at its next step.
SetIterRemaining(conns, pend, wasMoved) ==
    IF wasMoved THEN SUBSET conns ELSE {pend}

\* set.discard during the iteration: the member is no longer yielded.
SetIterAfterDiscard(pend, ws) == pend \ {ws}

---------------------------------------------------------------------------
(* websocket_endpoint: one listener task per WebSocket                     *)

\* Mutant of ConnectBegin: connect() adds the connection before accept().
ConnectBeginAddsFirst(ws) ==
    /\ Suspended
    /\ ws \in clients
    /\ wsState[ws] = "new"
    /\ wsState' = [wsState EXCEPT ![ws] = "accepting"]
    /\ connections' = connections \cup {ws}
    /\ moved' = (pc = "Sending")
    /\ UNCHANGED <<envVars, offVars, milVars, timeVars, handshook, regTrail, preReg, pc, err, cycleSubs,
                   fetchVars, message, dead, iterUsed, pending, cur, passStart,
                   attempts, got>>

\* /ws/live is requested: manager.connect() starts and awaits accept().
ConnectBegin(ws) ==
    /\ Suspended
    /\ ws \in clients
    /\ wsState[ws] = "new"
    /\ wsState' = [wsState EXCEPT ![ws] = "accepting"]
    /\ UNCHANGED <<envVars, offVars, milVars, timeVars, connections, handshook, regTrail, preReg, pc, err,
                   cycleSubs, fetchVars, passVars>>

\* accept() returns: the connection is added to the set, then the task
\* waits in receive_text().
AcceptOk(ws) ==
    /\ Suspended
    /\ wsState[ws] = "accepting"
    /\ handshook' = handshook \cup {ws}
    /\ connections' = connections \cup {ws}
    /\ wsState' = [wsState EXCEPT ![ws] = "listening"]
    /\ regTrail' = << [op |-> "register", ws |-> ws] >>
    /\ preReg' = connections
    /\ moved' = (pc = "Sending")
    /\ UNCHANGED <<envVars, offVars, milVars, timeVars, pc, err, cycleSubs, fetchVars, message, dead,
                   iterUsed, pending, cur, passStart, attempts, got>>

\* accept() raises: connect() and the endpoint end with the exception.
AcceptFail(ws) ==
    /\ Suspended
    /\ wsState[ws] = "accepting"
    /\ wsState' = [wsState EXCEPT ![ws] = "closed"]
    /\ UNCHANGED <<envVars, offVars, milVars, timeVars, connections, handshook, regTrail, preReg, pc, err,
                   cycleSubs, fetchVars, passVars>>

\* Mutant of ListenerDisconnect: disconnect() empties the set.
ListenerDisconnectClears(ws) ==
    /\ Suspended
    /\ wsState[ws] = "listening"
    /\ wsState' = [wsState EXCEPT ![ws] = "closed"]
    /\ connections' = {}
    /\ pending' = {}
    /\ IF regTrail = << [op |-> "register", ws |-> ws] >>
          THEN /\ regTrail' = Append(regTrail, [op |-> "unregister", ws |-> ws])
               /\ preReg' = preReg
          ELSE /\ regTrail' = <<>>
               /\ preReg' = {}
    /\ UNCHANGED <<envVars, offVars, milVars, timeVars, handshook, pc, err, cycleSubs, fetchVars, message,
                   dead, iterUsed, moved, cur, passStart, attempts, got>>

\* receive_text() raises WebSocketDisconnect or another Exception:
\* manager.disconnect(websocket) discards it and the task ends.
ListenerDisconnect(ws) ==
    /\ Suspended
    /\ wsState[ws] = "listening"
    /\ wsState' = [wsState EXCEPT ![ws] = "closed"]
    /\ connections' = connections \ {ws}
    /\ pending' = SetIterAfterDiscard(pending, ws)
    /\ IF regTrail = << [op |-> "register", ws |-> ws] >>
          THEN /\ regTrail' = Append(regTrail, [op |-> "unregister", ws |-> ws])
               /\ preReg' = preReg
          ELSE /\ regTrail' = <<>>
               /\ preReg' = {}
    /\ UNCHANGED <<envVars, offVars, milVars, timeVars, handshook, pc, err, cycleSubs, fetchVars, message,
                   dead, iterUsed, moved, cur, passStart, attempts, got>>

---------------------------------------------------------------------------
(* broadcast_loop                                                          *)

\* The statements after the try statement: elapsed is taken from the clock
\* and asyncio.sleep() is awaited with the rest of the interval.
EnterSleep ==
    \E e \in ElapsedTimes :
        /\ elapsed' = e
        /\ sleepFor' = SleepDuration(e)

\* Mutant of CycleStart: the count is not tested, every cycle fetches.
CycleStartAlwaysFetches ==
    /\ pc = "Idle"
    /\ cycleSubs' = connections
    /\ pc' = "Fetching"
    /\ results' = [s \in Sources |-> Pending]
    /\ invoked' = Sources
    /\ milArg' = None
    /\ milBranch' = ""
    /\ primaryFetches' = 1
    /\ UNCHANGED <<envVars, offVars, timeVars, regVars, err, aircraft, tles, quakes, military,
                   passVars>>

\* Top of the while loop: cycle_start is taken and the count is tested; with
\* no client the cycle is skipped and the loop goes to its sleep.
CycleStart ==
    /\ pc = "Idle"
    /\ cycleSubs' = connections
    /\ milArg' = None
    /\ milBranch' = ""
    /\ IF connection_count > 0
          THEN /\ pc' = "Fetching"
               /\ results' = [s \in Sources |-> Pending]
               /\ invoked' = Sources
               /\ primaryFetches' = 1
               /\ UNCHANGED timeVars
          ELSE /\ pc' = "Sleeping"
               /\ EnterSleep
               /\ primaryFetches' = 0
               /\ UNCHANGED <<results, invoked>>
    /\ UNCHANGED <<envVars, offVars, regVars, err, aircraft, tles, quakes, military,
                   passVars>>

\* One of the gathered fetchers ends: it returns a list or raises.
FetchDone(src, out) ==
    /\ pc = "Fetching"
    /\ results[src] = Pending
    /\ out \in feeds[src]
    /\ results' = [results EXCEPT ![src] = out]
    /\ UNCHANGED <<envVars, offVars, milVars, timeVars, regVars, pc, err, cycleSubs, aircraft, tles, quakes,
                   military, invoked, passVars>>

\* Mutant of GatherDone: a gather without return_exceptions, the first
\* exception of a fetcher leaves the try body and the cycle is abandoned.
GatherDoneRaises ==
    /\ pc = "Fetching"
    /\ \A s \in Sources : results[s] # Pending
    /\ IF \E s \in Sources : results[s] = Raised
          THEN /\ err' = "RuntimeError"
               /\ pc' = "Sleeping"
               /\ EnterSleep
               /\ UNCHANGED <<aircraft, tles, quakes>>
          ELSE /\ aircraft' = results["aircraft"].value
               /\ tles' = results["tles"].value
               /\ quakes' = results["earthquakes"].value
               /\ pc' = "Military"
               /\ err' = err
               /\ UNCHANGED timeVars
    /\ UNCHANGED <<envVars, offVars, milVars, regVars, cycleSubs, results, military, invoked,
                   passVars>>

\* Mutant of GatherDone: the loop goes on as soon as one awaitable has ended
\* (a wait for the first completion), the others still in flight.
GatherDoneFirstCompleted ==
    /\ pc = "Fetching"
    /\ \E s \in Sources : results[s] # Pending
    /\ aircraft' = Normalise(results["aircraft"])
    /\ tles' = Normalise(results["tles"])
    /\ quakes' = Normalise(results["earthquakes"])
    /\ pc' = "Military"
    /\ UNCHANGED <<envVars, offVars, milVars, timeVars, regVars, err, cycleSubs, results, military,
                   invoked, passVars>>

\* The gather returns once every awaitable has ended; an exception object
\* among the results is replaced by the empty list.
GatherDone ==
    /\ pc = "Fetching"
    /\ \A s \in Sources : results[s] # Pending
    /\ aircraft' = Normalise(results["aircraft"])
    /\ tles' = Normalise(results["tles"])
    /\ quakes' = Normalise(results["earthquakes"])
    /\ pc' = "Military"
    /\ UNCHANGED <<envVars, offVars, milVars, timeVars, regVars, err, cycleSubs, results, military, invoked,
                   passVars>>

\* Mutant of MilitaryBranch: the list is tested for truth (`if
\* all_aircraft:`), so an empty list is taken for no list.
MilitaryBranchTruthy(key, all_aircraft) ==
    IF key THEN "adsb"
    ELSE IF all_aircraft.given /\ all_aircraft.list # <<>> THEN "filter"
    ELSE "fallback"

\* The branch fetch_military_aircraft takes: the ADS-B Exchange endpoint
\* when a key is configured, else the filter over the records passed in
\* when `all_aircraft is not None`, else a fetch_aircraft call of its own.
MilitaryBranch(key, all_aircraft) ==
    IF key THEN "adsb"
    ELSE IF all_aircraft.given THEN "filter"
    ELSE "fallback"

\* fetch_military_aircraft(all_aircraft): what each branch can return (the
\* endpoint any list, empty on failure; the fallback the filtered result of
\* its own fetch_aircraft call).
fetch_military_aircraft(all_aircraft) ==
    CASE MilitaryBranch(adsbKey, all_aircraft) = "adsb" -> AdsbLists
      [] MilitaryBranch(adsbKey, all_aircraft) = "filter" ->
            {FilterMilitary(all_aircraft.list)}
      [] OTHER -> {FilterMilitary(l) : l \in AircraftLists}

MilitaryDone ==
    /\ pc = "Military"
    /\ milArg' = Some(aircraft)
    /\ milBranch' = MilitaryBranch(adsbKey, milArg')
    /\ primaryFetches' = IF milBranch' = "fallback" THEN primaryFetches + 1
                                                     ELSE primaryFetches
    /\ military' \in fetch_military_aircraft(milArg')
    /\ invoked' = invoked \cup {"military"}
    /\ pc' = "Building"
    /\ UNCHANGED <<envVars, offVars, timeVars, regVars, err, cycleSubs, results, aircraft, tles,
                   quakes, passVars>>

\* The payload is built and serialized once, and manager.broadcast(text) is
\* entered: dead = set() and the iterator over the live set is created.
Build ==
    /\ pc = "Building"
    /\ message' = << model_dump_json(WorldPayload(aircraft, military, tles, quakes)) >>
    /\ dead' = {}
    /\ iterUsed' = Cardinality(connections)
    /\ pending' = connections
    /\ moved' = FALSE
    /\ passStart' = connections
    /\ results' = [s \in Sources |-> Idle]
    /\ pc' = "Broadcasting"
    /\ UNCHANGED <<envVars, offVars, milVars, timeVars, regVars, err, cycleSubs, aircraft, tles, quakes,
                   military, invoked, cur, attempts, got>>

\* Mutant of CycleError: the handler catches WebSocketDisconnect only.
CycleErrorNarrow(e) == IF e = "WebSocketDisconnect" THEN "Sleeping" ELSE "Stopped"

\* except Exception as exc: the error is logged and the loop goes on to its
\* sleep; an exception that is no Exception ends the task.
CycleError(e) == IF e \in ExceptionClasses THEN "Sleeping" ELSE "Stopped"

\* One step of the for loop of broadcast(): the iterator raises when the set
\* changed size (the error leaves broadcast() and reaches the handler of the
\* cycle), ends the loop (then `self._connections -= dead`, the log line and
\* the sleep), or yields a member whose send is awaited.
IterNext ==
    /\ pc = "Broadcasting"
    /\ moved' = FALSE
    /\ IF Cardinality(connections) # iterUsed
          THEN /\ err' = "RuntimeError"
               /\ pc' = CycleError("RuntimeError")
               /\ IF pc' = "Sleeping" THEN EnterSleep ELSE UNCHANGED timeVars
               /\ pending' = {}
               /\ UNCHANGED <<connections, regTrail, preReg, cur, attempts>>
          ELSE \E rest \in SetIterRemaining(connections, pending, moved) :
               IF rest = {}
                  THEN /\ connections' = connections \ dead
                       /\ regTrail' = <<>>
                       /\ preReg' = {}
                       /\ pending' = {}
                       /\ pc' = "Sleeping"
                       /\ EnterSleep
                       /\ UNCHANGED <<err, cur, attempts>>
                  ELSE \E ws \in rest :
                       /\ cur' = ws
                       /\ pending' = rest \ {ws}
                       /\ attempts' = [attempts EXCEPT ![ws] = @ + 1]
                       /\ pc' = "Sending"
                       /\ UNCHANGED <<err, connections, regTrail, preReg,
                                      timeVars>>
    /\ UNCHANGED <<envVars, offVars, milVars, wsState, handshook, cycleSubs, fetchVars, message,
                   dead, iterUsed, passStart, got>>

\* Mutant of SendOk: dead.add(ws) in a finally clause, also after a send
\* that succeeded.
SendOkMarksDead ==
    /\ pc = "Sending"
    /\ got' = [got EXCEPT ![cur] = @ + 1]
    /\ dead' = dead \cup {cur}
    /\ cur' = 0
    /\ pc' = "Broadcasting"
    /\ UNCHANGED <<envVars, offVars, milVars, timeVars, regVars, err, cycleSubs, fetchVars, message,
                   iterUsed, pending, moved, passStart, attempts>>

\* await ws.send_text(message) returns.
SendOk ==
    /\ pc = "Sending"
    /\ got' = [got EXCEPT ![cur] = @ + 1]
    /\ cur' = 0
    /\ pc' = "Broadcasting"
    /\ UNCHANGED <<envVars, offVars, milVars, timeVars, regVars, err, cycleSubs, fetchVars, message, dead,
                   iterUsed, pending, moved, passStart, attempts>>

\* await ws.send_text(message) raises an Exception: dead.add(ws).
SendFail ==
    /\ pc = "Sending"
    /\ dead' = dead \cup {cur}
    /\ cur' = 0
    /\ pc' = "Broadcasting"
    /\ UNCHANGED <<envVars, offVars, milVars, timeVars, regVars, err, cycleSubs, fetchVars, message,
                   iterUsed, pending, moved, passStart, attempts, got>>

\* asyncio.sleep() returns: the next iteration of the while loop begins.
WakeUp ==
    /\ pc = "Sleeping"
    /\ pc' = "Idle"
    /\ results' = [s \in Sources |-> Idle]
    /\ aircraft' = <<>>
    /\ tles' = <<>>
    /\ quakes' = <<>>
    /\ military' = <<>>
    /\ message' = NoMessage
    /\ dead' = {}
    /\ iterUsed' = 0
    /\ pending' = {}
    /\ moved' = FALSE
    /\ cur' = 0
    /\ err' = ""
    /\ elapsed' = 0
    /\ sleepFor' = 0
    /\ cycleSubs' = {}
    /\ invoked' = {}
    /\ passStart' = {}
    /\ attempts' = [c \in Conns |-> 0]
    /\ got' = [c \in Conns |-> 0]
    /\ UNCHANGED <<envVars, offVars, milVars, regVars>>

Next ==
    \/ \E ws \in Conns : ConnectBegin(ws)
    \/ \E ws \in Conns : AcceptOk(ws)
    \/ \E ws \in Conns : AcceptFail(ws)
    \/ \E ws \in Conns : ListenerDisconnect(ws)
    \/ CycleStart
    \/ \E src \in Sources : \E out \in Outcomes(src) : FetchDone(src, out)
    \/ GatherDone
    \/ MilitaryDone
    \/ Build
    \/ IterNext
    \/ SendOk
    \/ SendFail
    \/ WakeUp

Spec == Init /\ [][Next]_vars

(* Fairness: the event loop runs every task that is ready, every upstream   *)
(* call carries a timeout and the sleep is finite, so each step of the      *)
(* broadcast loop that is enabled is eventually taken.  The completion of a *)
(* send depends on the peer: it is assumed only for the connections that    *)
(* are not in SlowConns.  Nothing is assumed about the clients.             *)
FairSpec ==
    /\ Spec
    /\ WF_vars(CycleStart)
    /\ WF_vars(\E src \in Sources : \E out \in Outcomes(src) : FetchDone(src, out))
    /\ WF_vars(GatherDone)
    /\ WF_vars(MilitaryDone)
    /\ WF_vars(Build)
    /\ WF_vars(IterNext)
    /\ WF_vars(WakeUp)
    /\ WF_vars(cur \notin SlowConns /\ (SendOk \/ SendFail))

---------------------------------------------------------------------------
(* lifespan: shutdown                                                      *)

\* Mutant of OnCancelled: the cycle's handler is `except BaseException`, the
\* CancelledError raised inside the try body is logged and the loop sleeps.
OnCancelledSwallowed(at) == IF at = "Sleeping" THEN "Cancelled" ELSE "Sleeping"

\* CancelledError is a BaseException: neither `except Exception` of
\* broadcast() nor that of the cycle catches it, and the sleep is outside the
\* try statement.  The task ends at whichever await it is suspended in.
OnCancelled(at) == "Cancelled"

\* Mutant of Shutdown: the gather is shielded, the fetchers in flight are not
\* cancelled with the loop.
ShutdownShielded ==
    /\ Suspended
    /\ cancelledAt = ""
    /\ cancelledAt' = pc
    /\ pc' = OnCancelled(pc)
    /\ UNCHANGED <<envVars, libVars, milVars, regVars, fetchVars, passVars, timeVars,
                   err, cycleSubs>>

\* After the yield of lifespan: task.cancel(), then await task.  The task is
\* suspended in an await of the loop; the CancelledError is raised there.  A
\* cancelled gather cancels each of its awaitables that has not ended, and
\* a send in flight is abandoned.
Shutdown ==
    /\ Suspended
    /\ cancelledAt = ""
    /\ cancelledAt' = pc
    /\ pc' = OnCancelled(pc)
    /\ results' = [s \in Sources |->
                      IF results[s] = Pending THEN CancelledFetch ELSE results[s]]
    /\ UNCHANGED <<envVars, libVars, milVars, regVars, aircraft, tles, quakes, military,
                   invoked, passVars, timeVars, err, cycleSubs>>

NextShutdown == Next \/ Shutdown

\* The program with its shutdown.
ShutdownSpec == Init /\ [][NextShutdown]_vars

---------------------------------------------------------------------------
(* ingestion/usgs.py: fetch_earthquakes on its own                         *)

loopVars == <<envVars, regVars, pc, err, cycleSubs, fetchVars, passVars,
              timeVars, milVars, cancelledAt>>

\* The loop not started and no client: the state in which a fetcher is
\* called on its own.
LoopOff == LoopInit([clients |-> {}, feeds |-> OneFeed, key |-> FALSE])

USGS_CACHE_TTL_SECONDS == 60

\* Number of features in an upstream answer, and the reach of the clock in
\* steps of half a TTL.
MaxFeatures == 2
MaxUsgsTicks == 4

\* A feature of the upstream GeoJSON, by what _parse_feature reads of it:
\* its id, the value under properties.mag (a number, absent, null, or a text
\* that is no number), whether geometry.coordinates exists, and the number
\* of coordinates.
Feature(id, mag, geometry, ncoords) ==
    [id |-> id, mag |-> mag, geometry |-> geometry, ncoords |-> ncoords]

FeatA == Feature("a", "number", TRUE, 3)
FeatB == Feature("b", "number", TRUE, 3)
FeatNoMag == Feature("k", "absent", TRUE, 3)
FeatMagNull == Feature("t", "null", TRUE, 3)
FeatShortCoords == Feature("s", "number", TRUE, 2)

Features == {FeatA, FeatB, FeatNoMag, FeatMagNull, FeatShortCoords}

SeqsUpTo(S, n) == UNION { [1..k -> S] : k \in 0..n }

\* What the request of fetch_earthquakes can end with: a timeout, an HTTP
\* error status, a body that is no JSON, a JSON body that is no object, an
\* object without "features", an object with a list of features.
UsgsResponses ==
    { [kind |-> k, features |-> <<>>] :
        k \in {"timeout", "http_error", "not_json", "not_object", "no_features"} }
    \cup { [kind |-> "features", features |-> fs] :
             fs \in SeqsUpTo(Features, MaxFeatures) }

EarthquakeEvent(f) == [id |-> f.id, magnitude |-> 5]
NoEvent == [id |-> "", magnitude |-> 0]

\* The exception the body of _parse_feature raises on f, "" when none, in
\* the order the body evaluates: feature["geometry"]["coordinates"],
\* float(props["mag"]), float(coords[0..2]).
ParseFeatureExc(f) ==
    CASE ~f.geometry -> "KeyError"
      [] f.mag = "absent" -> "KeyError"
      [] f.mag = "null" -> "TypeError"
      [] f.mag = "text" -> "ValueError"
      [] f.ncoords < 3 -> "IndexError"
      [] OTHER -> ""

\* except (KeyError, TypeError, ValueError)
ParseFeatureCaught == {"KeyError", "TypeError", "ValueError"}

\* _parse_feature: the event, None, or the exception that leaves it.
parse_feature(f) ==
    LET exc == ParseFeatureExc(f)
    IN  CASE exc = "" -> [kind |-> "event", exc |-> "", event |-> EarthquakeEvent(f)]
          [] exc \in ParseFeatureCaught ->
                [kind |-> "none", exc |-> "", event |-> NoEvent]
          [] OTHER -> [kind |-> "raise", exc |-> exc, event |-> NoEvent]

\* The exception raised inside the try statement of fetch_earthquakes for
\* the answer r, "" when none: by the request, raise_for_status(),
\* resp.json(), data.get, or the list comprehension over the features.
UsgsFetchExc(r) ==
    CASE r.kind = "timeout" -> "TimeoutException"
      [] r.kind = "http_error" -> "HTTPStatusError"
      [] r.kind = "not_json" -> "JSONDecodeError"
      [] r.kind = "not_object" -> "AttributeError"
      [] \E i \in 1..Len(r.features) : parse_feature(r.features[i]).kind = "raise" ->
            LET i == CHOOSE j \in 1..Len(r.features) :
                        /\ parse_feature(r.features[j]).kind = "raise"
                        /\ \A k \in 1..(j - 1) :
                              parse_feature(r.features[k]).kind # "raise"
            IN  parse_feature(r.features[i]).exc
      [] OTHER -> ""

\* [e for e in events if e is not None]
UsgsEvents(fs) ==
    LET parsed == [i \in 1..Len(fs) |-> parse_feature(fs[i])]
        kept == SelectSeq(parsed, LAMBDA x : x.kind = "event")
    IN  [i \in 1..Len(kept) |-> kept[i].event]

\* fetch_earthquakes up to its await: the clock is read; a non-empty cache
\* younger than the TTL is returned, else the request is sent.
UsgsCall ==
    /\ eqPc = "idle"
    /\ eqStart' = eqNow
    /\ IF eqCache # <<>> /\ (eqNow - eqCacheTime) < USGS_CACHE_TTL_SECONDS
          THEN /\ eqRet' = eqCache
               /\ eqHow' = "cached"
               /\ UNCHANGED eqPc
          ELSE /\ eqPc' = "requesting"
               /\ eqHow' = ""
               /\ UNCHANGED eqRet
    /\ UNCHANGED <<eqCache, eqCacheTime, eqNow, eqResp, eqFetched, loopVars,
                   notUsgs>>

\* The request ends with an answer of the upstream (or its timeout).
UsgsAnswer(r) ==
    /\ eqPc = "requesting"
    /\ eqResp' = r
    /\ eqPc' = "answered"
    /\ UNCHANGED <<eqCache, eqCacheTime, eqNow, eqStart, eqRet, eqHow,
                   eqFetched, loopVars, notUsgs>>

\* The rest of fetch_earthquakes: an exception inside the try statement is
\* caught by one of the two handlers, which return _cache; otherwise the
\* parsed events replace the cache, stamped with `now`, and are returned.
UsgsFinish ==
    /\ eqPc = "answered"
    /\ IF UsgsFetchExc(eqResp) # ""
          THEN /\ eqRet' = eqCache
               /\ eqHow' = "failed"
               /\ UNCHANGED <<eqCache, eqCacheTime, eqFetched>>
          ELSE /\ eqCache' = UsgsEvents(eqResp.features)
               /\ eqCacheTime' = eqStart
               /\ eqRet' = eqCache'
               /\ eqHow' = "stored"
               /\ eqFetched' = TRUE
    /\ eqResp' = NoResponse
    /\ eqPc' = "idle"
    /\ UNCHANGED <<eqNow, eqStart, loopVars, notUsgs>>

\* Time passes, half a TTL at a time.
UsgsTick ==
    /\ eqNow < MaxUsgsTicks * (USGS_CACHE_TTL_SECONDS \div 2)
    /\ eqNow' = eqNow + USGS_CACHE_TTL_SECONDS \div 2
    /\ UNCHANGED <<eqCache, eqCacheTime, eqPc, eqStart, eqResp, eqRet, eqHow,
                   eqFetched, loopVars, notUsgs>>

UsgsNext ==
    \/ UsgsCall
    \/ \E r \in UsgsResponses : UsgsAnswer(r)
    \/ UsgsFinish
    \/ UsgsTick

UsgsStart == LoopOff /\ UsgsInit /\ ParseOff /\ SatInit /\ SkyOff /\ BuildOff

UsgsSpec == UsgsStart /\ [][UsgsNext]_vars

---------------------------------------------------------------------------
(* ingestion/celestrak.py: _parse_tle_text on its own                      *)

\* Number of lines of the catalog text.
MaxLines == 7

\* Lines of a catalog, as sequences of characters: a name, a first and a
\* second element line (the second with a trailing blank), a blank line.
NameLine == <<"S">>
ElementLine1 == <<"1", " ", "7">>
ElementLine2 == <<"2", " ", "7", " ">>
BlankLine == <<" ">>

RawLines == {NameLine, ElementLine1, ElementLine2, BlankLine}

RECURSIVE LStrip(_)
LStrip(ln) == IF ln # <<>> /\ Head(ln) = " " THEN LStrip(Tail(ln)) ELSE ln

RECURSIVE RStrip(_)
RStrip(ln) ==
    IF ln # <<>> /\ ln[Len(ln)] = " "
       THEN RStrip(SubSeq(ln, 1, Len(ln) - 1))
       ELSE ln

\* str.strip()
Strip(ln) == RStrip(LStrip(ln))

\* [ln.strip() for ln in text.splitlines() if ln.strip()]
StrippedLines(text) ==
    LET kept == SelectSeq(text, LAMBDA ln : Strip(ln) # <<>>)
    IN  [k \in 1..Len(kept) |-> Strip(kept[k])]

\* _parse_tle_text is entered: lines is computed, i = 0, entries = [].
ParseBegin ==
    /\ tleParsePc = "start"
    /\ tleLines' = StrippedLines(tleText)
    /\ tleI' = 0
    /\ tleEntries' = <<>>
    /\ tleStarts' = <<>>
    /\ tleParsePc' = "scan"
    /\ UNCHANGED <<tleText, loopVars, notParse>>

\* Mutant of ParseStep: a mismatch skips the whole group of three lines.
ParseStepSkipsGroup ==
    /\ tleParsePc = "scan"
    /\ tleI + 2 < Len(tleLines)
    /\ LET name == tleLines[tleI + 1]
           line1 == tleLines[tleI + 2]
           line2 == tleLines[tleI + 3]
       IN  IF StartsWith(line1, <<"1", " ">>) /\ StartsWith(line2, <<"2", " ">>)
              THEN /\ tleEntries' = Append(tleEntries, <<name, line1, line2>>)
                   /\ tleStarts' = Append(tleStarts, tleI)
                   /\ tleI' = tleI + 3
              ELSE /\ tleI' = tleI + 3
                   /\ UNCHANGED <<tleEntries, tleStarts>>
    /\ UNCHANGED <<tleText, tleLines, tleParsePc, loopVars, notParse>>

\* One iteration of `while i + 2 < len(lines)` (i counts from 0, the
\* sequences of the model from 1).
ParseStep ==
    /\ tleParsePc = "scan"
    /\ tleI + 2 < Len(tleLines)
    /\ LET name == tleLines[tleI + 1]
           line1 == tleLines[tleI + 2]
           line2 == tleLines[tleI + 3]
       IN  IF StartsWith(line1, <<"1", " ">>) /\ StartsWith(line2, <<"2", " ">>)
              THEN /\ tleEntries' = Append(tleEntries, <<name, line1, line2>>)
                   /\ tleStarts' = Append(tleStarts, tleI)
                   /\ tleI' = tleI + 3
              ELSE /\ tleI' = tleI + 1
                   /\ UNCHANGED <<tleEntries, tleStarts>>
    /\ UNCHANGED <<tleText, tleLines, tleParsePc, loopVars, notParse>>

\* The while condition is false: return entries.
ParseReturn ==
    /\ tleParsePc = "scan"
    /\ ~(tleI + 2 < Len(tleLines))
    /\ tleParsePc' = "done"
    /\ UNCHANGED <<tleText, tleLines, tleI, tleEntries, tleStarts, loopVars,
                   notParse>>

ParseNext == ParseBegin \/ ParseStep \/ ParseReturn

\* _parse_tle_text called on any text of at most MaxLines lines.
ParseStart ==
    /\ LoopOff
    /\ UsgsInit
    /\ SatInit
    /\ SkyOff
    /\ BuildOff
    /\ tleText \in SeqsUpTo(RawLines, MaxLines)
    /\ tleLines = <<>>
    /\ tleI = 0
    /\ tleEntries = <<>>
    /\ tleStarts = <<>>
    /\ tleParsePc = "start"

ParseSpec == ParseStart /\ [][ParseNext]_vars

---------------------------------------------------------------------------
(* ingestion/celestrak.py: fetch_satellites on its own                     *)

MAX_SATELLITES == 2000
CACHE_TTL_SECONDS == 1800

\* Calls of time.monotonic() see at most this many half-TTL steps.
MaxSatTicks == 4

\* _parse_tle_text as a function of the lines of the text.
RECURSIVE TleScan(_, _)
TleScan(lines, i) ==
    IF i + 2 < Len(lines)
       THEN IF /\ StartsWith(lines[i + 2], <<"1", " ">>)
               /\ StartsWith(lines[i + 3], <<"2", " ">>)
               THEN <<<<lines[i + 1], lines[i + 2], lines[i + 3]>>>>
                        \o TleScan(lines, i + 3)
               ELSE TleScan(lines, i + 1)
       ELSE <<>>

parse_tle_text(text) == TleScan(StrippedLines(text), 0)

\* The name of an object whose elements no longer propagate (sgp4 returns
\* an error code for it).
DecayedLine == <<"D">>

\* The texts the upstream answers with: nothing, one object, and an object,
\* a stray line and a decayed object.
CatalogTexts ==
    { <<>>,
      <<NameLine, ElementLine1, ElementLine2>>,
      <<NameLine, ElementLine1, ElementLine2, NameLine,
        DecayedLine, ElementLine1, ElementLine2>> }

\* What the request of fetch_satellites ends with: a timeout or connection
\* error, an error status (raise_for_status), or a catalog text.
SatResponses ==
    {[kind |-> "timeout", text |-> <<>>], [kind |-> "http_error", text |-> <<>>]}
        \cup {[kind |-> "ok", text |-> t] : t \in CatalogTexts}

\* _compute_position: None when the propagation fails, else the position
\* (its numbers are left out), named by the entry's name and the catalog
\* number line1[2:7].strip().
compute_position(entry) ==
    IF entry[1] = DecayedLine
       THEN <<>>
       ELSE <<[name |-> entry[1],
               norad_id |-> Strip(SubSeq(entry[2], 3, Len(entry[2])))]>>

RECURSIVE Positions(_)
Positions(entries) ==
    IF entries = <<>>
       THEN <<>>
       ELSE compute_position(Head(entries)) \o Positions(Tail(entries))

Min(a, b) == IF a <= b THEN a ELSE b

\* celestrak.py:104-108: the positions of _tle_cache[:MAX_SATELLITES].
SatResult(cache) == Positions(SubSeq(cache, 1, Min(Len(cache), MAX_SATELLITES)))

\* fetch_satellites up to its only await: a populated cache not older than
\* the TTL is used without a request.
SatCall ==
    /\ satPc = "idle"
    /\ satStart' = satNow
    /\ satSlept' = <<>>
    /\ IF satCache = <<>> \/ (satNow - satCacheTime) > CACHE_TTL_SECONDS
          THEN /\ satPc' = "requesting"
               /\ satAttempts' = 1
               /\ satHow' = ""
               /\ UNCHANGED satRet
          ELSE /\ satRet' = SatResult(satCache)
               /\ satAttempts' = 0
               /\ satHow' = "cached"
               /\ UNCHANGED satPc
    /\ UNCHANGED <<satCache, satCacheTime, satNow, satResp, loopVars, notSat>>

\* The request ends and the call returns: an answer replaces the cache; an
\* exception is logged and the call goes on with the cache it has, or
\* returns [] when it has none.
SatAnswer(r) ==
    /\ satPc = "requesting"
    /\ satResp' = r
    /\ IF r.kind = "ok"
          THEN /\ satCache' = parse_tle_text(r.text)
               /\ satCacheTime' = satStart
               /\ satHow' = "refreshed"
          ELSE /\ satHow' = IF satCache = <<>> THEN "failed_empty"
                                               ELSE "failed_cache"
               /\ UNCHANGED <<satCache, satCacheTime>>
    /\ satRet' = SatResult(satCache')
    /\ satPc' = "idle"
    /\ UNCHANGED <<satNow, satStart, satAttempts, satSlept, loopVars, notSat>>

\* Time passes, half a TTL at a time.
SatTick ==
    /\ satNow < MaxSatTicks * (CACHE_TTL_SECONDS \div 2)
    /\ satNow' = satNow + CACHE_TTL_SECONDS \div 2
    /\ UNCHANGED <<satCache, satCacheTime, satPc, satStart, satResp, satRet,
                   satHow, satAttempts, satSlept, loopVars, notSat>>

SatNext ==
    \/ SatCall
    \/ \E r \in SatResponses : SatAnswer(r)
    \/ SatTick

SatStart == LoopOff /\ UsgsInit /\ ParseOff /\ SatInit /\ SkyOff /\ BuildOff

SatSpec == SatStart /\ [][SatNext]_vars

---------------------------------------------------------------------------
(* ingestion/opensky.py: fetch_aircraft on its own                         *)

\* Number of state vectors in one upstream answer.
MaxStates == 2
\* Calls of time.monotonic() see at most this many steps of the clock.
MaxSkyTicks == 4

TOKEN_SAFETY_BUFFER == 30
DEFAULT_EXPIRES_IN == 300
SkyTickSeconds == TOKEN_SAFETY_BUFFER \div 2

\* JSON values of a state vector, by their Python type.
JNone == [t |-> "none", v |-> <<>>]
JNum == [t |-> "num", v |-> <<"1">>]
JBool == [t |-> "bool", v |-> <<"0">>]
JStr(chars) == [t |-> "str", v |-> chars]

\* Python truth value of a JSON value (x or "").
Truthy(val) == val.t # "none" /\ val.v # <<>> /\ val # JBool

\* A state vector with the documented twelve leading fields.
StateVector(icao, callsign, lon, lat) ==
    <<icao, callsign, JStr(<<"U", "S">>), JNum, JNum, lon, lat, JNum, JBool,
      JNum, JNum, JNum>>

SvMil == StateVector(JStr(MilIcao), JStr(<<"U", " ">>), JNum, JNum)
SvCiv == StateVector(JStr(CivIcao), JNone, JNum, JNum)
SvNoLongitude == StateVector(JStr(CivIcao), JNone, JNone, JNum)
SvNoLatitude == StateVector(JStr(MilIcao), JNone, JNum, JNone)
SvEmpty == <<>>
SvShort == SubSeq(SvCiv, 1, 8)
SvLongitudeText == StateVector(JStr(CivIcao), JNone, JStr(<<"a", "b">>), JNum)
SvCallsignNumber == StateVector(JStr(CivIcao), JNum, JNum, JNum)

StateVectors ==
    {SvMil, SvCiv, SvNoLongitude, SvNoLatitude, SvEmpty, SvShort,
     SvLongitudeText, SvCallsignNumber}

\* pydantic's validation of a str field and of an Optional[float] field.
StrFieldOk(val) == val.t = "str"
FloatFieldOk(val) == val.t \in {"none", "num", "bool"}

\* The exception the body of _parse_state_vector's try statement raises on
\* a state vector, "" when it raises none. Fields count from 0 in the
\* source and from 1 here.
ParseStateExc(sv) ==
    CASE Len(sv) < 7 -> "IndexError"
      [] sv[6] = JNone \/ sv[7] = JNone -> ""
      [] Truthy(sv[2]) /\ sv[2].t # "str" -> "AttributeError"
      [] Len(sv) < 12 -> "IndexError"
      [] \/ Truthy(sv[1]) /\ ~StrFieldOk(sv[1])
         \/ Truthy(sv[3]) /\ ~StrFieldOk(sv[3])
         \/ \E k \in {6, 7, 8, 10, 11, 12} : ~FloatFieldOk(sv[k])
         \/ sv[5].t \notin {"none", "num"} -> "ValidationError"
      [] OTHER -> ""

\* except (IndexError, TypeError)
ParseStateCaught == {"IndexError", "TypeError"}

\* _parse_state_vector: a record, None, or an exception that leaves it.
parse_state_vector(sv) ==
    LET exc == ParseStateExc(sv)
    IN  IF exc \in ParseStateCaught
           THEN [kind |-> "none", exc |-> "", record |-> AircraftPosition(<<>>, FALSE)]
        ELSE IF exc # ""
           THEN [kind |-> "raise", exc |-> exc, record |-> AircraftPosition(<<>>, FALSE)]
        ELSE IF sv[6] = JNone \/ sv[7] = JNone
           THEN [kind |-> "none", exc |-> "", record |-> AircraftPosition(<<>>, FALSE)]
        ELSE [kind |-> "record", exc |-> "",
              record |-> AircraftPosition(IF Truthy(sv[1]) THEN sv[1].v ELSE <<>>, TRUE)]

\* settings select the scheme: OAuth2 when client id and secret are set,
\* else basic auth when user name and password are set, else anonymous.
SkySchemeOf(cfg) ==
    IF cfg.client_id /\ cfg.client_secret THEN "oauth"
    ELSE IF cfg.username /\ cfg.password THEN "basic"
    ELSE "anonymous"

SkySettings ==
    [client_id : BOOLEAN, client_secret : BOOLEAN, username : BOOLEAN,
     password : BOOLEAN]

\* What the token request ends with.
SkyTokenResponses ==
    {[stage |-> "token", kind |-> k, states |-> <<>>, expires |-> 0] :
        k \in {"timeout", "http_error", "not_json", "not_object",
               "no_access_token", "bad_expires_in"}}
    \cup {[stage |-> "token", kind |-> "ok", states |-> <<>>, expires |-> e] :
            e \in {TOKEN_SAFETY_BUFFER, 2 * TOKEN_SAFETY_BUFFER, DEFAULT_EXPIRES_IN}}

\* What the data request ends with.
SkyDataResponses ==
    {[stage |-> "data", kind |-> k, states |-> <<>>, expires |-> 0] :
        k \in {"timeout", "http_error", "not_json", "not_object", "no_states",
               "states_number"}}
    \cup {[stage |-> "data", kind |-> "states", states |-> l, expires |-> 0] :
            l \in SeqsUpTo(StateVectors, MaxStates) \ {<<>>}}

\* The exception _get_bearer_token raises on an answer.
SkyTokenExc(r) ==
    CASE r.kind = "timeout" -> "TimeoutException"
      [] r.kind = "http_error" -> "HTTPStatusError"
      [] r.kind = "not_json" -> "JSONDecodeError"
      [] r.kind = "not_object" -> "TypeError"
      [] r.kind = "no_access_token" -> "KeyError"
      [] r.kind = "bad_expires_in" -> "ValueError"
      [] OTHER -> ""

\* The first exception that leaves _parse_state_vector in the list
\* comprehension over states.
RECURSIVE FirstParseRaise(_)
FirstParseRaise(states) ==
    IF states = <<>> THEN ""
    ELSE IF parse_state_vector(Head(states)).kind = "raise"
       THEN parse_state_vector(Head(states)).exc
    ELSE FirstParseRaise(Tail(states))

\* The exception the rest of fetch_aircraft's try statement raises on an
\* answer to the data request.
SkyDataExc(r) ==
    CASE r.kind = "timeout" -> "TimeoutException"
      [] r.kind = "http_error" -> "HTTPStatusError"
      [] r.kind = "not_json" -> "JSONDecodeError"
      [] r.kind = "not_object" -> "AttributeError"
      [] r.kind = "states_number" -> "TypeError"
      [] r.kind = "states" -> FirstParseRaise(r.states)
      [] OTHER -> ""

\* [a for a in aircraft if a is not None]
SkyResult(states) ==
    LET parsed == [k \in 1..Len(states) |-> parse_state_vector(states[k])]
        kept == SelectSeq(parsed, LAMBDA q : q.kind = "record")
    IN  [k \in 1..Len(kept) |-> kept[k].record]

\* Mutant of SkyCaught: the handlers without the last `except Exception`.
SkyCaughtNamed(exc) == exc \in {"TimeoutException", "HTTPStatusError"}

\* The three handlers of fetch_aircraft: TimeoutException, HTTPStatusError
\* and Exception, which is a base of every exception raised here.
SkyCaught(exc) == exc \in {"TimeoutException", "HTTPStatusError"} \/ exc # ""

\* fetch_aircraft ends in an exception of its try statement.
SkyEnd(exc) ==
    /\ skyPc' = "idle"
    /\ IF SkyCaught(exc)
          THEN skyRet' = <<>> /\ skyRaised' = ""
          ELSE skyRaised' = exc /\ UNCHANGED skyRet

\* The token a request at this time obtains.
NewToken == skyNow \div SkyTickSeconds + 1

\* fetch_aircraft up to its first await: with OAuth2 credentials a token
\* that is cached and not past its expiry is used without a token request.
SkyCall ==
    /\ skyPc = "idle"
    /\ skyResp' = NoSkyResponse
    /\ skyRaised' = ""
    /\ IF skyScheme = "oauth" /\ ~(skyToken # 0 /\ skyNow < skyTokenExp)
          THEN /\ skyPc' = "token"
               /\ skyTokenReqs' = 1
               /\ skySent' = 0
          ELSE /\ skyPc' = "data"
               /\ skyTokenReqs' = 0
               /\ skySent' = IF skyScheme = "oauth" THEN skyToken ELSE 0
    /\ UNCHANGED <<skyScheme, skyToken, skyTokenExp, skyNow, skyRet, skyExpiry,
                   loopVars, notSky>>

\* Mutant of TokenExpiresAt: the expiry without the safety buffer.
TokenExpiresAtExpiry(now, expires_in) == now + expires_in

\* _token_expires_at = time.monotonic() + expires_in - 30
TokenExpiresAt(now, expires_in) == now + expires_in - TOKEN_SAFETY_BUFFER

\* The token request ends. _token is assigned before expires_in is read.
SkyTokenAnswer(r) ==
    /\ skyPc = "token"
    /\ skyResp' = r
    /\ skyToken' = IF r.kind \in {"ok", "bad_expires_in"} THEN NewToken
                                                           ELSE skyToken
    /\ skyTokenExp' = IF r.kind = "ok"
                         THEN TokenExpiresAt(skyNow, r.expires)
                         ELSE skyTokenExp
    /\ skyExpiry' = CASE r.kind = "ok" -> skyNow + r.expires
                       [] r.kind = "bad_expires_in" -> skyNow
                       [] OTHER -> skyExpiry
    /\ IF SkyTokenExc(r) = ""
          THEN /\ skyPc' = "data"
               /\ skySent' = skyToken'
               /\ UNCHANGED <<skyRet, skyRaised>>
          ELSE /\ SkyEnd(SkyTokenExc(r))
               /\ UNCHANGED skySent
    /\ UNCHANGED <<skyScheme, skyNow, skyTokenReqs, loopVars, notSky>>

\* The data request ends and the call returns.
SkyDataAnswer(r) ==
    /\ skyPc = "data"
    /\ skyResp' = r
    /\ IF SkyDataExc(r) = ""
          THEN /\ skyRet' = SkyResult(r.states)
               /\ skyPc' = "idle"
               /\ UNCHANGED skyRaised
          ELSE SkyEnd(SkyDataExc(r))
    /\ UNCHANGED <<skyScheme, skyToken, skyTokenExp, skyNow, skySent,
                   skyTokenReqs, skyExpiry, loopVars, notSky>>

\* Time passes.
SkyTick ==
    /\ skyNow < MaxSkyTicks * SkyTickSeconds
    /\ skyNow' = skyNow + SkyTickSeconds
    /\ UNCHANGED <<skyScheme, skyToken, skyTokenExp, skyPc, skyResp, skyRet,
                   skyRaised, skySent, skyTokenReqs, skyExpiry, loopVars,
                   notSky>>

SkyNext ==
    \/ SkyCall
    \/ \E r \in SkyTokenResponses : SkyTokenAnswer(r)
    \/ \E r \in SkyDataResponses : SkyDataAnswer(r)
    \/ SkyTick

SkyStart ==
    /\ LoopOff
    /\ UsgsInit
    /\ ParseOff
    /\ SatInit
    /\ BuildOff
    /\ \E cfg \in SkySettings : SkyInit(SkySchemeOf(cfg))

SkySpec == SkyStart /\ [][SkyNext]_vars

---------------------------------------------------------------------------
(* main.py: _build_aircraft_geojson on its own                             *)

\* Number of records in aircraft_list.
MaxRecords == 2

\* A coordinate that is 0.0: not None, though false as a truth value.
JZero == [t |-> "num", v |-> <<"0">>]

\* Optional[float] values of longitude and latitude.
Coordinates == {JNone, JZero, JNum}

\* AircraftPosition records with their two coordinates spelled out.
PositionRecords ==
    [icao24 : {MilIcao, CivIcao}, longitude : Coordinates, latitude : Coordinates]

\* GeoJSONFeature(geometry=GeoJSONPoint(coordinates=[lon, lat]), properties=...)
GeoJSONFeature(ac) ==
    [type |-> "Feature", coordinates |-> <<ac.longitude, ac.latitude>>,
     icao24 |-> ac.icao24]

\* _build_aircraft_geojson is entered: features = [].
BuildBegin ==
    /\ bldPc = "start"
    /\ bldArg' = bldList
    /\ bldI' = 0
    /\ bldFeatures' = <<>>
    /\ bldPc' = "loop"
    /\ UNCHANGED <<bldList, loopVars, notBld>>

\* Mutant of BuildStep: a record is left out only when it lacks both
\* coordinates.
BuildStepNeedsBothAbsent ==
    /\ bldPc = "loop"
    /\ bldI < Len(bldList)
    /\ LET ac == bldList[bldI + 1]
       IN  IF ac.latitude = JNone /\ ac.longitude = JNone
              THEN UNCHANGED bldFeatures
              ELSE bldFeatures' = Append(bldFeatures, GeoJSONFeature(ac))
    /\ bldI' = bldI + 1
    /\ UNCHANGED <<bldList, bldArg, bldPc, loopVars, notBld>>

\* One iteration of `for ac in aircraft_list`.
BuildStep ==
    /\ bldPc = "loop"
    /\ bldI < Len(bldList)
    /\ LET ac == bldList[bldI + 1]
       IN  IF ac.latitude = JNone \/ ac.longitude = JNone
              THEN UNCHANGED bldFeatures
              ELSE bldFeatures' = Append(bldFeatures, GeoJSONFeature(ac))
    /\ bldI' = bldI + 1
    /\ UNCHANGED <<bldList, bldArg, bldPc, loopVars, notBld>>

\* The list is exhausted: return GeoJSONFeatureCollection(features=features).
BuildReturn ==
    /\ bldPc = "loop"
    /\ bldI = Len(bldList)
    /\ bldPc' = "done"
    /\ UNCHANGED <<bldList, bldArg, bldI, bldFeatures, loopVars, notBld>>

BuildNext == BuildBegin \/ BuildStep \/ BuildReturn

\* _build_aircraft_geojson called on any list of at most MaxRecords records.
BuildStart ==
    /\ LoopOff
    /\ UsgsInit
    /\ ParseOff
    /\ SatInit
    /\ SkyOff
    /\ bldList \in SeqsUpTo(PositionRecords, MaxRecords)
    /\ bldArg = <<>>
    /\ bldI = 0
    /\ bldFeatures = <<>>
    /\ bldPc = "start"

BuildSpec == BuildStart /\ [][BuildNext]_vars

---------------------------------------------------------------------------
(* Properties                                                              *)

\* A broadcast was entered in the current cycle and the loop has left it.
PassOver == pc = "Sleeping" /\ message # NoMessage

\* No send to c raised in the current pass.
SendsSucceeded(c) == attempts[c] = got[c]

\* C1: in a pass where a send raised, every connection that was in the set
\* when the pass began got exactly one send attempt, and the connections
\* whose send raised are out of the set once the pass is over (and not
\* before, unless their own listener removed them).
C1_Claim ==
    /\ (PassOver /\ dead # {}) =>
          /\ \A c \in passStart : attempts[c] = 1
          /\ connections \cap dead = {}
    /\ pc \in {"Broadcasting", "Sending"} =>
          \A c \in dead : c \in connections \/ wsState[c] = "closed"

\* C2: no error leaves broadcast() because the set changed while the pass
\* was suspended in a send, and the pass attempts a delivery to every
\* connection that was in the set when it began and is still connected.
C2_Claim ==
    /\ err # "RuntimeError"
    /\ PassOver =>
          \A c \in passStart : wsState[c] = "listening" => attempts[c] >= 1

\* C3: a send that never completes does not stall the cycle: whenever a send
\* is in flight the loop eventually reaches its sleep, and every connection
\* the pass has still to visit is eventually visited.
C3_Claim ==
    /\ (pc = "Sending") ~> (pc = "Sleeping")
    /\ \A c \in Conns : (pc = "Sending" /\ c \in pending) ~> (c \notin pending)

\* C4: at the end of a cycle that began with subscribers, the payload was
\* built and broadcast, its counts are the lengths of the fetched lists and
\* its collections hold their features, and every subscriber of the start of
\* the cycle that is still connected received it exactly once.
C4_Claim ==
    (pc = "Sleeping" /\ cycleSubs # {}) =>
        /\ message # NoMessage
        /\ message[1].json.counts =
              [aircraft |-> Len(aircraft), military |-> Len(military),
               satellites |-> Len(tles), earthquakes |-> Len(quakes)]
        /\ Len(message[1].json.aircraft.features) = Len(aircraft)
        /\ Len(message[1].json.earthquakes.features) = Len(quakes)
        /\ \A c \in cycleSubs :
              (wsState[c] = "listening" /\ SendsSucceeded(c)) => got[c] = 1

C7_Theorem ==
    (pc # "Idle" /\ cycleSubs = {}) =>
        /\ pc = "Sleeping"
        /\ invoked = {}
        /\ \A s \in Sources : results[s] = Idle
        /\ message = NoMessage
        /\ \A c \in Conns : attempts[c] = 0

\* A cycle was skipped (a client has connected since, during the sleep).
C7_Witness ==
    /\ pc = "Sleeping"
    /\ cycleSubs = {}
    /\ invoked = {}
    /\ connections # {}

\* C8: a connection leaves the set only in the step in which its own
\* listener ends on a receive error, or at the end of a broadcast pass in
\* which a send to it raised.
C8_Theorem ==
    [][ \A c \in Conns :
           (c \in connections /\ c \notin connections') =>
               \/ wsState[c] = "listening" /\ wsState'[c] = "closed"
               \/ /\ pc = "Broadcasting" /\ pc' = "Sleeping"
                  /\ attempts[c] > got[c]
      ]_vars

\* A connection is still registered after a pass in which its send
\* succeeded, while another client has connected and disconnected.
C8_Witness ==
    \E c \in Conns : \E d \in Conns \ {c} :
        /\ PassOver
        /\ got[c] = 1
        /\ c \in connections
        /\ d \in handshook
        /\ wsState[d] = "closed"

\* C9: every member of the set, every target of a send and every counted
\* subscriber has completed its handshake; a connection whose accept() is
\* still in progress or has failed is in none of them.
C9_Theorem ==
    /\ connections \subseteq handshook
    /\ pending \subseteq handshook
    /\ cycleSubs \subseteq handshook
    /\ passStart \subseteq handshook
    /\ cur # 0 => cur \in handshook
    /\ \A c \in Conns : attempts[c] > 0 => c \in handshook

\* One handshake failed, another completed and that connection was served.
C9_Witness ==
    \E c \in Conns : \E d \in Conns \ {c} :
        /\ wsState[d] = "closed"
        /\ d \notin handshook
        /\ c \in connections
        /\ got[c] = 1

\* C10: after a register directly followed by the unregister of the same
\* connection the registry is the set it was before the register (same
\* members, same count); and a broadcast entered on an empty registry ends
\* at once with no send, no error and the registry still empty.
C10_Theorem ==
    [][ /\ Len(regTrail') = 2 =>
              /\ connections' = preReg'
              /\ Cardinality(connections') = Cardinality(preReg')
        /\ (pc = "Broadcasting" /\ passStart = {}) =>
              /\ pc' = "Sleeping"
              /\ connections' = {}
              /\ err' = ""
              /\ cur' = 0
              /\ attempts' = attempts
      ]_vars

\* A pass ran on an empty registry and ended without error, and since then
\* a register was directly followed by the unregister of that connection.
C10_Witness ==
    /\ PassOver
    /\ passStart = {}
    /\ err = ""
    /\ Len(regTrail) = 2
    /\ connections = preReg

\* C11: whenever the loop is in its sleep, of a cycle that broadcast, was
\* skipped or failed alike, the delay it sleeps is not negative, is the rest
\* of the interval when the cycle took less than the interval, and is
\* exactly zero when the cycle took the interval or longer.
C11_Theorem ==
    pc = "Sleeping" =>
        /\ sleepFor >= 0
        /\ elapsed < POLLING_INTERVAL_SECONDS =>
              sleepFor = POLLING_INTERVAL_SECONDS - elapsed
        /\ elapsed >= POLLING_INTERVAL_SECONDS => sleepFor = 0

\* A cycle that failed in its broadcast took longer than the interval and
\* the loop sleeps for zero seconds.
C11_Witness ==
    /\ pc = "Sleeping"
    /\ err = "RuntimeError"
    /\ elapsed > POLLING_INTERVAL_SECONDS
    /\ sleepFor = 0

\* C12: the loop runs one cycle at a time in the order Idle, Fetching (the
\* gather, then the military fetch), Building, Broadcasting, Sleeping, Idle.
\* The gather is left only when every fetcher it started has returned or
\* raised; while a fetcher is in flight no payload of the cycle exists and
\* no send is in flight; fetchers are started at the top of the loop only,
\* which is reached from the sleep only.
C12_Theorem ==
    [][ /\ pc' # pc =>
              \/ pc = "Idle" /\ pc' \in {"Fetching", "Sleeping"}
              \/ pc = "Fetching" /\ pc' = "Military"
              \/ pc = "Military" /\ pc' = "Building"
              \/ pc = "Building" /\ pc' = "Broadcasting"
              \/ pc = "Broadcasting" /\ pc' \in {"Sending", "Sleeping"}
              \/ pc = "Sending" /\ pc' = "Broadcasting"
              \/ pc = "Sleeping" /\ pc' = "Idle"
        /\ (pc = "Fetching" /\ pc' # "Fetching") =>
              \A s \in Sources : results[s] \in Outcomes(s)
        /\ (\E s \in Sources : results'[s] = Pending) =>
              /\ pc' = "Fetching"
              /\ message' = NoMessage
              /\ cur' = 0
        /\ (\E s \in Sources : results[s] # Pending /\ results'[s] = Pending) =>
              /\ pc = "Idle"
              /\ \A s \in Sources : results[s] = Idle
        /\ pc' \in {"Broadcasting", "Sending"} =>
              /\ message' # NoMessage
              /\ invoked' = Sources \cup {"military"}
      ]_vars

\* A send of the cycle's payload is in flight after one fetcher of the
\* cycle raised and another returned its records.
C12_Witness ==
    /\ pc = "Sending"
    /\ invoked = Sources \cup {"military"}
    /\ message # NoMessage
    /\ message[1].json.counts.earthquakes = 0
    /\ message[1].json.counts.aircraft = 1

\* C13: the cancellation of shutdown ends the loop at the await it is
\* suspended in, whatever the phase: the loop does not go on to a sleep or
\* to another cycle, and from then on no send is started or completed, so
\* the connections a pass had still to serve are not served.
C13_Theorem ==
    [][ /\ cancelledAt' # "" =>
              /\ pc' = "Cancelled"
              /\ cancelledAt' \in {"Fetching", "Military", "Sending", "Sleeping"}
        /\ (cancelledAt = "" /\ cancelledAt' # "") =>
              /\ cancelledAt' = pc
              /\ UNCHANGED <<attempts, got, cur, pending, connections, message>>
        /\ cancelledAt # "" =>
              UNCHANGED <<pc, attempts, got, cur, pending, connections, message>>
      ]_vars

\* The loop was cancelled during a send, with a connection of the pass
\* still to serve.
C13_Witness ==
    /\ pc = "Cancelled"
    /\ cancelledAt = "Sending"
    /\ attempts[cur] = got[cur] + 1
    /\ \E c \in pending : attempts[c] = 0

\* C14 as stated: cancellation takes effect only at the top of the loop and
\* in the sleep, and no fetcher in flight is ever ended by it.
C14_Claim ==
    /\ cancelledAt \in {"", "Idle", "Sleeping"}
    /\ \A s \in Sources : results[s] # CancelledFetch

\* C14 amended: cancellation takes effect at the await the loop is suspended
\* in: the gather, the call of the military endpoint (only with a key
\* configured), a send, or the sleep.  Cancelling the gather cancels exactly
\* the fetchers still in flight and leaves the outcomes of the others; a
\* fetcher is ended by cancellation in no other way.
C14_Theorem ==
    [][ /\ (cancelledAt = "" /\ cancelledAt' # "") =>
              /\ pc \in {"Fetching", "Military", "Sending", "Sleeping"}
              /\ cancelledAt' = pc
              /\ pc = "Military" => adsbKey
              /\ \A s \in Sources :
                    results'[s] = IF results[s] = Pending
                                     THEN CancelledFetch ELSE results[s]
        /\ (\E s \in Sources : results'[s] = CancelledFetch) =>
              cancelledAt' = "Fetching"
      ]_vars

\* The gather was cancelled with one fetcher done and another in flight.
C14_Witness ==
    /\ cancelledAt = "Fetching"
    /\ \E s \in Sources : results[s].status = "ok"
    /\ \E s \in Sources : results[s] = CancelledFetch

\* The answers that are a failed fetch: a timeout, an HTTP error status, a
\* body that is malformed (no JSON, no object, or without its features).
UsgsFailure(r) ==
    r.kind \in {"timeout", "http_error", "not_json", "not_object", "no_features"}

\* C15: a fetch that fails while the cache is populated returns the cache
\* as it was and leaves the cache and its timestamp as they were.
C15_Claim ==
    [][ (eqPc = "answered" /\ eqPc' = "idle" /\ UsgsFailure(eqResp)
            /\ eqCache # <<>>) =>
            /\ eqRet' = eqCache
            /\ eqCache' = eqCache
            /\ eqCacheTime' = eqCacheTime
      ]_vars

\* A feature is well formed when it has its keys, a numeric magnitude and
\* three coordinates.
WellFormed(f) == f.geometry /\ f.mag = "number" /\ f.ncoords = 3

\* C19: of an answer with a list of features, exactly the well-formed
\* features are returned, in order, and cached, whatever their siblings are.
C19_Claim ==
    [][ (eqPc = "answered" /\ eqPc' = "idle" /\ eqResp.kind = "features") =>
            LET good == SelectSeq(eqResp.features, WellFormed)
                events == [i \in 1..Len(good) |-> EarthquakeEvent(good[i])]
            IN  /\ eqRet' = events
                /\ eqCache' = events
      ]_vars

\* Lines p+1 and p+2 carry the markers of a first and a second element line
\* (p counts from 0).
TleMatch(lines, p) ==
    /\ p + 2 < Len(lines)
    /\ Len(lines[p + 2]) >= 2 /\ lines[p + 2][1] = "1" /\ lines[p + 2][2] = " "
    /\ Len(lines[p + 3]) >= 2 /\ lines[p + 3][1] = "2" /\ lines[p + 3][2] = " "

\* The returned entries are the triples of three consecutive lines at the
\* positions starts, which carry the markers, do not overlap and are in
\* text order; and no position outside these triples begins a triple that
\* carries the markers: each such line was skipped alone.
TleScanResult(lines, entries, starts) ==
    /\ Len(entries) = Len(starts)
    /\ \A k \in 1..Len(starts) :
          /\ TleMatch(lines, starts[k])
          /\ entries[k] = <<lines[starts[k] + 1], lines[starts[k] + 2],
                             lines[starts[k] + 3]>>
          /\ k > 1 => starts[k] >= starts[k - 1] + 3
    /\ \A p \in 0..(Len(lines) - 1) :
          (\A k \in 1..Len(starts) : p < starts[k] \/ p > starts[k] + 2) =>
              ~TleMatch(lines, p)

\* C17: the scan moves forward in every iteration and stays within the
\* lines, so it ends; and what it returns are exactly the non-overlapping
\* marked triples found from the start, a mismatch skipping one line.
C17_Theorem ==
    [][ /\ (tleParsePc = "scan" /\ tleParsePc' = "scan") =>
              /\ tleI' > tleI
              /\ tleI' <= Len(tleLines)
        /\ tleParsePc' = "scan" => tleLines' = StrippedLines(tleText)
        /\ tleParsePc' = "done" =>
              /\ TleScanResult(tleLines', tleEntries', tleStarts')
              /\ \A k \in 1..Len(tleLines') :
                    tleLines'[k] # <<>> /\ tleLines'[k] = Strip(tleLines'[k])
      ]_vars

\* The catalog SATA, 1, 2, GARBAGE, SATB, 1, 2 was parsed into its two
\* entries, the line GARBAGE skipped.
C17_Witness ==
    /\ tleParsePc = "done"
    /\ tleText = <<NameLine, ElementLine1, ElementLine2, NameLine, NameLine,
                    ElementLine1, ElementLine2>>
    /\ Len(tleEntries) = 2
    /\ tleStarts = <<0, 4>>

\* C16: a call of the orbital-elements fetcher that ends in the fallback
\* (the cache, or nothing) after a timeout has issued 3 requests, with the
\* delays 3 s and 6 s between them; and no call issues more than 3.
C16_Claim ==
    [][ /\ satAttempts' <= 3
        /\ (satPc = "requesting" /\ satPc' = "idle" /\ satResp'.kind = "timeout") =>
              /\ satHow' \in {"failed_empty", "failed_cache"}
              /\ satAttempts' = 3
              /\ satSlept' = <<3, 6>>
      ]_vars

\* A state vector with twelve fields of the right types.
SvWellFormed(sv) ==
    /\ Len(sv) >= 12
    /\ sv[1].t \in {"none", "str"} /\ sv[2].t \in {"none", "str"}
    /\ sv[3].t \in {"none", "str"}
    /\ \A k \in {5, 6, 7, 8, 10, 11, 12} : sv[k].t \in {"none", "num"}

\* C18: a fetch_aircraft call whose data request is answered with a list
\* of state vectors returns the records of the well-formed vectors that
\* have a longitude and a latitude, in upstream order.
C18_Claim ==
    [][ (skyPc = "data" /\ skyPc' = "idle" /\ skyResp'.kind = "states") =>
            LET good == SelectSeq(skyResp'.states,
                            LAMBDA sv : /\ SvWellFormed(sv)
                                        /\ sv[6] # JNone /\ sv[7] # JNone)
            IN  skyRet' = [k \in 1..Len(good) |->
                              AircraftPosition(good[k][1].v, TRUE)]
      ]_vars

\* An answer that is a timeout, an error status, a failed token request or
\* a malformed body.
SkyFailure(r) ==
    \/ r.stage = "token" /\ r.kind # "ok"
    \/ r.stage = "data" /\ r.kind \in {"timeout", "http_error", "not_json",
                                         "not_object", "states_number"}

\* C20: no exception leaves fetch_aircraft, and a call that met a timeout,
\* an error status, a failed token request or a malformed body returns [],
\* whichever credentials are configured.
C20_Theorem ==
    /\ skyRaised = ""
    /\ (skyPc = "idle" /\ SkyFailure(skyResp)) => skyRet = <<>>

\* With OAuth2 credentials a token request failed for a missing
\* access_token and the call returned [].
C20_Witness ==
    /\ skyScheme = "oauth"
    /\ skyPc = "idle"
    /\ skyResp.stage = "token" /\ skyResp.kind = "no_access_token"
    /\ skyRet = <<>>
    /\ skyRaised = ""

\* A record with a longitude and a latitude.
HasPosition(ac) == ac.longitude # JNone /\ ac.latitude # JNone

\* C21: what _build_aircraft_geojson returns holds one feature for each
\* record of the list that has both coordinates, in the order of the list,
\* and none for the others; and the list is what it was at the call.
C21_Theorem ==
    /\ bldPc \in {"loop", "done"} => bldList = bldArg
    /\ bldPc = "done" =>
          LET located == SelectSeq(bldArg, HasPosition)
          IN  /\ Len(bldFeatures) = Len(located)
              /\ \A k \in 1..Len(located) :
                    /\ bldFeatures[k].icao24 = located[k].icao24
                    /\ bldFeatures[k].coordinates =
                          <<located[k].longitude, located[k].latitude>>
                    /\ JNone \notin {bldFeatures[k].coordinates[1],
                                      bldFeatures[k].coordinates[2]}

\* A list of a record at longitude 0.0 and a record without latitude was
\* built into the one feature of the first.
C21_Witness ==
    /\ bldPc = "done"
    /\ Len(bldArg) = 2
    /\ bldArg[1].longitude = JZero /\ bldArg[1].latitude = JNum
    /\ bldArg[2].longitude = JNum /\ bldArg[2].latitude = JNone
    /\ Len(bldFeatures) = 1
    /\ bldFeatures[1].icao24 = bldArg[1].icao24

\* C22: fetch_earthquakes issues an upstream request only when no call has
\* stored an answer yet or the stored answer is 60 seconds old or older;
\* otherwise it returns the cache, whatever the stored answer held.
C22_Claim ==
    [][ (eqPc = "idle" /\ eqPc' = "requesting") =>
            \/ ~eqFetched
            \/ eqNow - eqCacheTime >= USGS_CACHE_TTL_SECONDS
      ]_vars

\* C23: with OAuth2 credentials a call sends the cached token, with no
\* token request, only while the time is before the token's expiry less
\* 30 s; a call at or after that instant, or without a token, requests a
\* token first and sends the data request only with the token it got.
C23_Theorem ==
    [][ skyScheme = "oauth" =>
          /\ (skyPc = "idle" /\ skyPc' = "data") =>
                /\ skyToken # 0
                /\ skyNow < skyExpiry - TOKEN_SAFETY_BUFFER
                /\ skySent' = skyToken
                /\ skyTokenReqs' = 0
          /\ (skyPc = "idle" /\ skyPc' = "token") =>
                /\ skyToken = 0 \/ skyNow >= skyExpiry - TOKEN_SAFETY_BUFFER
                /\ skyTokenReqs' = 1
          /\ (skyPc = "idle" /\ skyPc' # "idle" /\ skyToken # 0
                 /\ skyNow >= skyExpiry - TOKEN_SAFETY_BUFFER) => skyPc' = "token"
          /\ (skyPc = "token" /\ skyPc' = "data") =>
                /\ skyResp'.kind = "ok"
                /\ skyToken' = NewToken
                /\ skySent' = skyToken'
      ]_vars

\* After an earlier call had returned records, a later call found the
\* token past its margin, requested a new one and sent it.
C23_Witness ==
    /\ skyScheme = "oauth"
    /\ skyPc = "data"
    /\ skyRet # <<>>
    /\ skyTokenReqs = 1
    /\ skyResp.kind = "ok" /\ skyResp.expires = 2 * TOKEN_SAFETY_BUFFER
    /\ skySent = skyToken /\ skyToken > 2
    /\ skyNow < skyExpiry - TOKEN_SAFETY_BUFFER

\* C24: without an ADS-B Exchange key the military fetch of a cycle begins
\* when the cycle's aircraft fetch has ended, is handed its records (the
\* empty list when it failed), returns their military subset and makes no
\* fetch_aircraft call of its own; the branch that does is taken only when
\* no list is handed over; fetch_aircraft is called at most once a cycle.
C24_Theorem ==
    [][ /\ primaryFetches' <= 1
        /\ milBranch' = "fallback" => ~milArg'.given
        /\ (pc = "Military" /\ pc' = "Building" /\ ~adsbKey) =>
              /\ results["aircraft"] \notin {Idle, Pending}
              /\ milArg' = Some(Normalise(results["aircraft"]))
              /\ milBranch' = "filter"
              /\ military' = FilterMilitary(Normalise(results["aircraft"]))
              /\ primaryFetches' = 1
      ]_vars

\* A cycle whose aircraft fetch raised: the military fetch filtered the
\* empty list it was handed and fetched nothing itself.
C24_Witness ==
    /\ pc = "Building"
    /\ ~adsbKey
    /\ results["aircraft"] = Raised
    /\ milArg = Some(<<>>)
    /\ milBranch = "filter"
    /\ military = <<>>
    /\ primaryFetches = 1
====
